---- MODULE Spec2Model ----
(***************************************************************************)
(* Model of src/main/main.c: firmware that drives an HC-SR04 style         *)
(* ultrasonic sensor.  One foreground loop (main), one GPIO interrupt      *)
(* handler (echo_isr) and one alarm callback (echo_timeout_callback)       *)
(* share a handful of volatile globals.                                    *)
(*                                                                         *)
(* Time is the microsecond counter of the board (get_absolute_time).  It   *)
(* passes only while the foreground is inside a blocking call              *)
(* (getchar_timeout_us, sleep_us, sleep_ms); straight-line code is         *)
(* instantaneous.  Interrupts are taken between any two foreground steps.  *)
(***************************************************************************)
EXTENDS Integers, Sequences, FiniteSets

(***************************************************************************)
(* Program constants                                                       *)
(***************************************************************************)
TRIGGER_PULSE_US == 10
ECHO_TIMEOUT_US == 30000
BOOT_DELAY_MS == 2000
POLL_TIMEOUT_US == 1000
RTC_PERIOD_US == 1000000
MEDICAO_PERIOD_US == 1000000
WAIT_MS == 50
CMD_BUFFER_SIZE == 20
NO_ALARM == -1

(***************************************************************************)
(* Bounds of the model                                                     *)
(***************************************************************************)
\* the loop is followed for this many milliseconds after it starts
HorizonMs == 3010
\* number of command lines the host types
MaxLines == 3
\* number of edges the echo line makes
MaxEdges == 2
\* granularity, in microseconds, with which time passes inside sleep_ms
StepUs == 10000

\* instant at which main enters the loop of line 147
LoopStart == BOOT_DELAY_MS * 1000

MaxTime == LoopStart + HorizonMs * 1000

\* what getchar_timeout_us returns when no character arrived in time
PICO_ERROR_TIMEOUT == "PICO_ERROR_TIMEOUT"
NUL == "NUL"
CR == "CR"
LF == "LF"

Delimiters == { CR, LF }

\* A line longer than the line buffer.
LongLine ==
    << "s", "t", "a", "r", "t", "0", "1", "2", "3", "4", "5",
       "6", "7", "8", "9", "a", "b", "c", "d", "e", "f" >>

\* What the host types: lines of printable characters, each with its delimiter.
Lines ==
    { << "s", "t", "a", "r", "t", LF >>,
      << "S", "T", "A", "R", "T", CR >>,
      << "S", "t", "a", "r", "t", LF >>,
      << "s", "t", "o", "p", LF >>,
      << "S", "T", "O", "P", CR >>,
      << "s", "T", "o", "P", LF >>,
      << "h", "e", "l", "l", "o", LF >>,
      << CR >>,
      LongLine \o << LF >> }

\* The families of runs that are followed: in "console" the host types any
\* of the lines and the echo line is silent, in "sensor" the host types only
\* the two verbs and the echo line makes edges.
Scenarios == { "console", "sensor" }

\* In "bench" the host types start once and the echo line makes one edge more,
\* with pulses of the widths below, in microseconds.
PulseWidths == { 29, 58, 5800, 5820, 10000, 29999 }

Min2(a, b) == IF a <= b THEN a ELSE b

SetMin(S) == CHOOSE x \in S : \A y \in S : x <= y

VARIABLES
    \* foreground (main)
    pc,                    \* position of main inside the loop body
    c,                     \* int c: the result of getchar_timeout_us
    cmd_buffer,            \* char cmd_buffer[20]
    cmd_index,             \* int cmd_index
    ultima_medicao_tempo,  \* absolute_time_t ultima_medicao_tempo
    rtc_update_time,       \* absolute_time_t rtc_update_time
    wake,                  \* instant at which the current blocking call returns
    t_start,               \* value read from echo_start_time at line 174
    t_end,                 \* value read from echo_end_time at line 174
    distancia,             \* argument handed to print_medicao
    \* globals shared with the interrupt handlers
    sistema_ativo,
    echo_recebido,
    echo_timeout,
    echo_start_time,
    echo_end_time,
    echo_timeout_alarm,
    current_time,
    \* hardware
    now,                   \* the microsecond counter
    alarms,                \* the alarm pool: outstanding alarms [id, due]
    echo_level,            \* level of the ECHO pin
    trigger,               \* level of the TRIGGER pin
    rtc_base,              \* datetime last written to the RTC
    rtc_set_at,            \* instant at which it was written
    \* console
    scenario,              \* the family of runs, fixed from the start
    typing,                \* characters of the current line not yet received
    lines_left,            \* lines the host may still type
    edges_left,            \* edges the echo line may still make
    out,                   \* lines printed by the latest step
    \* history, for the properties
    rx,                    \* non-delimiter characters received since the last dispatch
    last_cmd,              \* the string handed to verifica_comando last
    ativo_antes,           \* sistema_ativo as the latest dispatch found it
    ticks,                 \* calls of update_rtc_time so far
    last_trigger,          \* instant of the latest trigger pulse, -1 before the first
    last_line_at,          \* instant of the latest measurement line, -1 before the first
    cycle_lines,           \* measurement lines printed in the current cycle
    cycle_echo,            \* the echo line in the current cycle: "none" (no rising
                           \* edge), "rose", "overdue" (it rose and its alarm fired
                           \* before the wait ended), "pulse" (it rose and fell
                           \* before the wait ended) or "many" (more edges than that)
    cycle_class            \* the branch lines 173-179 took in the current cycle:
                           \* "none" (not yet there), "ready", "timedout" or "pending"

fgvars == << pc, c, cmd_buffer, cmd_index, ultima_medicao_tempo, rtc_update_time,
             wake, t_start, t_end, distancia >>
shvars == << sistema_ativo, echo_recebido, echo_timeout, echo_start_time,
             echo_end_time, echo_timeout_alarm, current_time >>
hwvars == << now, alarms, echo_level, trigger, rtc_base, rtc_set_at >>
iovars == << scenario, typing, lines_left, edges_left, out >>
histvars == << rx, last_cmd, ativo_antes, ticks, last_trigger, last_line_at,
               cycle_lines, cycle_echo, cycle_class >>
vars == << fgvars, shvars, hwvars, iovars, histvars >>

\* In "sensor" the host toggles sampling: it types start when sampling is off
\* and stop when it is on.
Vocabulary(sc) ==
    IF sc = "console"
    THEN Lines
    ELSE IF sc = "bench"
    THEN IF sistema_ativo THEN { } ELSE { << "s", "t", "a", "r", "t", LF >> }
    ELSE IF sistema_ativo
         THEN { << "s", "t", "o", "p", LF >> }
         ELSE { << "s", "t", "a", "r", "t", LF >> }

(***************************************************************************)
(* Wall clock                                                              *)
(***************************************************************************)
InitialTime == [hour |-> 21, min |-> 30, sec |-> 0]

\* an update_rtc_time whose carries compare with > instead of >=
update_rtc_time_late(t) ==
    LET s1 == t.sec + 1 IN
    IF s1 > 60
    THEN LET m1 == t.min + 1 IN
         IF m1 > 60
         THEN LET h1 == t.hour + 1 IN
              IF h1 > 24
              THEN [hour |-> 0, min |-> 0, sec |-> 0]
              ELSE [hour |-> h1, min |-> 0, sec |-> 0]
         ELSE [hour |-> t.hour, min |-> m1, sec |-> 0]
    ELSE [hour |-> t.hour, min |-> t.min, sec |-> s1]

\* update_rtc_time: the value it leaves in current_time
update_rtc_time(t) ==
    LET s1 == t.sec + 1 IN
    IF s1 >= 60
    THEN LET m1 == t.min + 1 IN
         IF m1 >= 60
         THEN LET h1 == t.hour + 1 IN
              IF h1 >= 24
              THEN [hour |-> 0, min |-> 0, sec |-> 0]
              ELSE [hour |-> h1, min |-> 0, sec |-> 0]
         ELSE [hour |-> t.hour, min |-> m1, sec |-> 0]
    ELSE [hour |-> t.hour, min |-> t.min, sec |-> s1]

ToSeconds(t) == (t.hour * 60 + t.min) * 60 + t.sec

FromSeconds(n) ==
    LET d == n % 86400 IN
    [hour |-> d \div 3600, min |-> (d % 3600) \div 60, sec |-> d % 60]

\* rtc_get_datetime: the RTC counts seconds on its own from the value and the
\* instant of the latest rtc_set_datetime
rtc_get_datetime ==
    FromSeconds(ToSeconds(rtc_base) + (now - rtc_set_at) \div 1000000)

(***************************************************************************)
(* Distance                                                                *)
(***************************************************************************)
\* calcula_distancia_cm: (duracao_us * 0.0343) / 2.0, kept as the exact
\* numerator over 20000.  The int argument is converted to uint64_t: a negative
\* one wraps around to a value near 2^64, which is kept here as the negative
\* number itself
calcula_distancia_cm(duracao_us) ==
    IF duracao_us >= 0 THEN duracao_us * 343 ELSE duracao_us

\* a format that cuts the fraction off, as a conversion to int does
FormatCm_trunc(x) == IF x < 0 THEN x ELSE x \div 20000

\* printf("%.0f") of the float that calcula_distancia_cm returns: nearest
\* integer, a tie going to the even one (a negative argument stands for a
\* wrapped distance and is passed through).  The narrowing to float moves a
\* value below 1024 by less than 2^-15, which is less than the 1/20000 that
\* separates a value that is no half from the nearest half, and a half is a
\* float: so the integer is that of the exact quotient.
FormatCm(x) ==
    IF x < 0
    THEN x
    ELSE LET q == x \div 20000
             r == x % 20000
         IN  IF r > 10000 THEN q + 1
             ELSE IF r = 10000 THEN q + (q % 2)
             ELSE q

(***************************************************************************)
(* Console lines                                                           *)
(***************************************************************************)
MsgIniciado == [kind |-> "iniciado"]
MsgPausado == [kind |-> "pausado"]
MsgDesconhecido(cmd) == [kind |-> "desconhecido", cmd |-> cmd]
MsgDisponiveis == [kind |-> "disponiveis"]
MsgFalha(t) == [kind |-> "falha", at |-> t]
MsgCm(t, x) == [kind |-> "cm", at |-> t, cm |-> FormatCm(x)]

IsMedicao(l) == l.kind \in { "falha", "cm" }

\* the C string held by a buffer: the characters before the first NUL
CString(buf) ==
    LET n == SetMin({ i \in 0 .. CMD_BUFFER_SIZE : i = CMD_BUFFER_SIZE \/ buf[i] = NUL })
    IN  [ i \in 1 .. n |-> buf[i - 1] ]

CmdStart == { << "s", "t", "a", "r", "t" >>, << "S", "T", "A", "R", "T" >> }
CmdStop == { << "s", "t", "o", "p" >>, << "S", "T", "O", "P" >> }

\* a verifica_comando that compares with the lower-case spellings only
verifica_comando_lower(cmd, ativo) ==
    IF cmd = << "s", "t", "a", "r", "t" >> THEN TRUE
    ELSE IF cmd = << "s", "t", "o", "p" >> THEN FALSE
    ELSE ativo

\* a verifica_comando whose last branch also stops the sampling
verifica_comando_reset(cmd, ativo) ==
    IF cmd \in CmdStart THEN TRUE
    ELSE IF cmd \in CmdStop THEN FALSE
    ELSE FALSE

\* a verifica_comando whose verbs flip the flag instead of setting it
verifica_comando_toggle(cmd, ativo) ==
    IF cmd \in CmdStart THEN ~ativo
    ELSE IF cmd \in CmdStop THEN ~ativo
    ELSE ativo

\* verifica_comando: the value it leaves in sistema_ativo
verifica_comando_ativo(cmd, ativo) ==
    IF cmd \in CmdStart THEN TRUE
    ELSE IF cmd \in CmdStop THEN FALSE
    ELSE ativo

\* verifica_comando: the lines it prints
verifica_comando_out(cmd) ==
    IF cmd \in CmdStart THEN << MsgIniciado >>
    ELSE IF cmd \in CmdStop THEN << MsgPausado >>
    ELSE << MsgDesconhecido(cmd), MsgDisponiveis >>

\* a line 162 that compares with sizeof(cmd_buffer) instead of sizeof - 1
BufferHasRoom_full(index) == index < CMD_BUFFER_SIZE

\* a line 162 that stores every character
BufferHasRoom_always(index) == TRUE

\* line 162: whether a character that is no delimiter is stored
BufferHasRoom(index) == index < CMD_BUFFER_SIZE - 1

\* line 150: whether the clock tick is due
TickDue(t) == t - rtc_update_time >= RTC_PERIOD_US

\* a line 167 that does not look at sistema_ativo
MedicaoDue_always(t) == t - ultima_medicao_tempo >= MEDICAO_PERIOD_US

\* a line 168 that does not look at the time of the last measurement
MedicaoDue_unpaced(t) == sistema_ativo

\* lines 167-168: whether a measurement is started
MedicaoDue(t) == sistema_ativo /\ t - ultima_medicao_tempo >= MEDICAO_PERIOD_US

(***************************************************************************)
(* Initial state: main has run up to the while (true) of line 147          *)
(***************************************************************************)
InitWith(t, scs) ==
    /\ pc = "poll"
    /\ c = PICO_ERROR_TIMEOUT
    /\ cmd_buffer = [ i \in 0 .. (CMD_BUFFER_SIZE - 1) |-> NUL ]
    /\ cmd_index = 0
    /\ ultima_medicao_tempo = LoopStart
    /\ rtc_update_time = LoopStart
    /\ wake = LoopStart + POLL_TIMEOUT_US
    /\ t_start = 0
    /\ t_end = 0
    /\ distancia = 0
    /\ sistema_ativo = FALSE
    /\ echo_recebido = FALSE
    /\ echo_timeout = FALSE
    /\ echo_start_time = 0
    /\ echo_end_time = 0
    /\ echo_timeout_alarm = NO_ALARM
    /\ current_time = t
    /\ now = LoopStart
    /\ alarms = {}
    /\ echo_level = 0
    /\ trigger = 0
    /\ rtc_base = t
    /\ rtc_set_at = 0
    /\ scenario \in scs
    /\ typing = << >>
    /\ lines_left = MaxLines
    /\ edges_left = IF scenario = "sensor" THEN MaxEdges
                    ELSE IF scenario = "bench" THEN MaxEdges + 1
                    ELSE 0
    /\ out = << >>
    /\ rx = << >>
    /\ last_cmd = << >>
    /\ ativo_antes = FALSE
    /\ ticks = 0
    /\ last_trigger = -1
    /\ last_line_at = -1
    /\ cycle_lines = 0
    /\ cycle_echo = "none"
    /\ cycle_class = "none"

Init == InitWith(InitialTime, Scenarios)

\* The loop behaves alike from any instant on, for it reads the counter only
\* through differences; so the wall clock values that lead to a carry, which
\* the firmware reaches after hours, are taken as the clock's value at the
\* instant the loop is followed from.
ClockStarts ==
    { [hour |-> 21, min |-> 30, sec |-> 59],
      [hour |-> 21, min |-> 59, sec |-> 59],
      [hour |-> 23, min |-> 59, sec |-> 59] }

InitClock == \E t \in ClockStarts : InitWith(t, { "sensor" })

InitBench == InitWith(InitialTime, { "bench" })

\* a step that prints nothing
Quiet == out' = << >>

\* main is inside a measurement cycle: lines 169 to 181
InCycle ==
    pc \in { "fire", "fire_b", "pulse", "sleep", "inspect", "inspect_to", "rd1", "rd2",
             "print", "update" }

(***************************************************************************)
(* Interrupt context                                                       *)
(***************************************************************************)
\* add_alarm_in_us: the handle of the new alarm
NewAlarmId(pool) ==
    SetMin({ i \in 1 .. (Cardinality(pool) + 1) : \A a \in pool : a.id # i })

\* cancel_alarm
cancel_alarm(pool, id) == { a \in pool : a.id # id }

\* Interrupts are taken while main is blocked and between the steps of the
\* measurement cycle.  Lines 150 to 168 run in no time and touch no variable
\* that a handler touches, so a handler that runs among them has the effect
\* of one that runs just before line 150 or just after line 168; the same
\* holds of a poll that returns at once with a character that was waiting.
Interruptible ==
    /\ pc \notin { "tick", "cmd", "check" }
    /\ pc = "poll" => typing = << >>

\* A call of echo_isr reads the counter at a later value than the call before
\* it did: the handler takes longer than a microsecond to run.
EdgeSpaced == now > echo_start_time /\ now > echo_end_time

\* echo_timeout_callback, run by the alarm pool when an alarm is due
AlarmFires ==
    \E a \in alarms :
        /\ Interruptible
        /\ now >= a.due
        /\ alarms' = alarms \ { a }
        /\ echo_timeout' = TRUE
        /\ echo_recebido' = FALSE
        /\ echo_timeout_alarm' = NO_ALARM
        /\ cycle_echo' = IF pc \in { "pulse", "sleep" } /\ cycle_echo = "rose"
                         THEN "overdue" ELSE cycle_echo
        /\ Quiet
        /\ UNCHANGED << fgvars, sistema_ativo, echo_start_time, echo_end_time,
                        current_time, now, echo_level, trigger, rtc_base, rtc_set_at,
                        scenario, typing, lines_left, edges_left, rx, last_cmd, ativo_antes, ticks,
                        last_trigger, last_line_at, cycle_lines, cycle_class >>

\* echo_isr with GPIO_IRQ_EDGE_RISE
RisingEdge ==
    /\ Interruptible
    /\ EdgeSpaced
    /\ echo_level = 0
    /\ edges_left > 0
    /\ echo_level' = 1
    /\ edges_left' = edges_left - 1
    /\ echo_start_time' = now
    /\ echo_recebido' = FALSE
    /\ LET kept == IF echo_timeout_alarm >= 0
                   THEN cancel_alarm(alarms, echo_timeout_alarm)
                   ELSE alarms
           id == NewAlarmId(kept)
       IN  /\ alarms' = kept \cup { [id |-> id, due |-> now + ECHO_TIMEOUT_US] }
           /\ echo_timeout_alarm' = id
    /\ cycle_echo' = IF InCycle /\ cycle_echo = "none" THEN "rose"
                     ELSE IF cycle_echo = "pulse" THEN "many"
                     ELSE cycle_echo
    /\ Quiet
    /\ UNCHANGED << fgvars, sistema_ativo, echo_timeout, echo_end_time, current_time,
                    now, trigger, rtc_base, rtc_set_at, scenario, typing, lines_left, rx,
                    last_cmd, ativo_antes, ticks, last_trigger, last_line_at,
                    cycle_lines, cycle_class >>

\* an echo_isr whose falling branch lacks line 67
FallingEdge_keep ==
    /\ Interruptible
    /\ EdgeSpaced
    /\ echo_level = 1
    /\ edges_left > 0
    /\ echo_level' = 0
    /\ edges_left' = edges_left - 1
    /\ echo_end_time' = now
    /\ echo_recebido' = TRUE
    /\ IF echo_timeout_alarm >= 0
       THEN /\ alarms' = cancel_alarm(alarms, echo_timeout_alarm)
            /\ echo_timeout_alarm' = NO_ALARM
       ELSE UNCHANGED << alarms, echo_timeout_alarm >>
    /\ cycle_echo' = IF pc \in { "pulse", "sleep" } /\ cycle_echo = "rose"
                     THEN "pulse" ELSE cycle_echo
    /\ Quiet
    /\ UNCHANGED << fgvars, sistema_ativo, echo_timeout, echo_start_time, current_time, now,
                    trigger, rtc_base, rtc_set_at, scenario, typing, lines_left, rx, last_cmd, ativo_antes,
                    ticks, last_trigger, last_line_at, cycle_lines, cycle_class >>

\* echo_isr with GPIO_IRQ_EDGE_FALL
FallingEdge ==
    /\ Interruptible
    /\ EdgeSpaced
    /\ echo_level = 1
    /\ edges_left > 0
    /\ echo_level' = 0
    /\ edges_left' = edges_left - 1
    /\ echo_end_time' = now
    /\ echo_recebido' = TRUE
    /\ echo_timeout' = FALSE
    /\ IF echo_timeout_alarm >= 0
       THEN /\ alarms' = cancel_alarm(alarms, echo_timeout_alarm)
            /\ echo_timeout_alarm' = NO_ALARM
       ELSE UNCHANGED << alarms, echo_timeout_alarm >>
    /\ cycle_echo' = IF pc \in { "pulse", "sleep" } /\ cycle_echo = "rose"
                     THEN "pulse" ELSE cycle_echo
    /\ Quiet
    /\ UNCHANGED << fgvars, sistema_ativo, echo_start_time, current_time, now,
                    trigger, rtc_base, rtc_set_at, scenario, typing, lines_left, rx, last_cmd, ativo_antes,
                    ticks, last_trigger, last_line_at, cycle_lines, cycle_class >>

\* an echo_isr whose rising branch lacks lines 58-60
BothEdges_keep ==
    /\ Interruptible
    /\ EdgeSpaced
    /\ edges_left > 1
    /\ edges_left' = edges_left - 2
    /\ echo_start_time' = now
    /\ echo_recebido' = FALSE
    /\ LET kept == alarms
           id == NewAlarmId(kept)
       IN  /\ alarms' = kept \cup { [id |-> id, due |-> now + ECHO_TIMEOUT_US] }
           /\ echo_timeout_alarm' = id
    /\ cycle_echo' = IF InCycle THEN "many" ELSE cycle_echo
    /\ Quiet
    /\ UNCHANGED << fgvars, sistema_ativo, echo_timeout, echo_end_time, current_time,
                    now, echo_level, trigger, rtc_base, rtc_set_at, scenario, typing,
                    lines_left, rx, last_cmd, ativo_antes, ticks, last_trigger,
                    last_line_at, cycle_lines, cycle_class >>

\* echo_isr with GPIO_IRQ_EDGE_RISE | GPIO_IRQ_EDGE_FALL: the line made two
\* edges before the handler ran, and is back at the level it had.  Line 54 is
\* tested first, so the call is handled as a rising edge and line 64 is not
\* reached.
BothEdges ==
    /\ Interruptible
    /\ EdgeSpaced
    /\ edges_left > 1
    /\ edges_left' = edges_left - 2
    /\ echo_start_time' = now
    /\ echo_recebido' = FALSE
    /\ LET kept == IF echo_timeout_alarm >= 0
                   THEN cancel_alarm(alarms, echo_timeout_alarm)
                   ELSE alarms
           id == NewAlarmId(kept)
       IN  /\ alarms' = kept \cup { [id |-> id, due |-> now + ECHO_TIMEOUT_US] }
           /\ echo_timeout_alarm' = id
    /\ cycle_echo' = IF InCycle THEN "many" ELSE cycle_echo
    /\ Quiet
    /\ UNCHANGED << fgvars, sistema_ativo, echo_timeout, echo_end_time, current_time,
                    now, echo_level, trigger, rtc_base, rtc_set_at, scenario, typing,
                    lines_left, rx, last_cmd, ativo_antes, ticks, last_trigger,
                    last_line_at, cycle_lines, cycle_class >>

(***************************************************************************)
(* Foreground: the loop body of main, lines 147 to 184                     *)
(***************************************************************************)
\* nothing is due at instant t: an iteration whose poll times out at t changes
\* nothing but the clock
Idle(t) == ~TickDue(t) /\ ~MedicaoDue(t)

\* the whole seconds of loop time that have elapsed at instant t
WholeSeconds(t) == (t - LoopStart) \div 1000000

\* the first instant after t at which something becomes due or a whole second
\* of loop time is completed
NextStop(t) ==
    LET a == rtc_update_time + RTC_PERIOD_US
        b == IF sistema_ativo THEN ultima_medicao_tempo + MEDICAO_PERIOD_US ELSE a
        s == LoopStart + (WholeSeconds(t) + 1) * 1000000
    IN  SetMin({ a, b, s, MaxTime + 1 } \cup { x.due : x \in alarms })

\* the first instant at which an alarm is due, or t when none is due before t
DueBefore(t) == SetMin({ t } \cup { a.due : a \in alarms })

\* the amounts by which time is let pass at once: StepUs, or in "bench", from
\* the instant of a rising edge, the width of a pulse
Steps ==
    IF scenario = "bench" /\ echo_level = 1 /\ now = echo_start_time
    THEN PulseWidths
    ELSE { StepUs }

\* time passes while main is blocked in sleep_us or sleep_ms, or in
\* getchar_timeout_us up to the instant at which an alarm is due
Advance ==
    /\ pc \in { "poll", "pulse", "sleep" }
    /\ pc = "poll" => typing = << >> /\ DueBefore(wake) < wake
    /\ now < wake
    /\ \E step \in Steps :
           LET t == Min2(now + step, DueBefore(wake))
           IN  /\ t > now
               /\ t <= MaxTime
               /\ now' = t
    /\ Quiet
    /\ UNCHANGED << fgvars, shvars, alarms, echo_level, trigger, rtc_base, rtc_set_at,
                    scenario, typing, lines_left, edges_left, rx, last_cmd, ativo_antes, ticks, last_trigger,
                    last_line_at, cycle_lines, cycle_echo, cycle_class >>

\* line 148: getchar_timeout_us returns the next character of the console
PollChar ==
    /\ pc = "poll"
    /\ \/ /\ typing # << >>
          /\ c' = Head(typing)
          /\ typing' = Tail(typing)
          /\ UNCHANGED lines_left
       \/ /\ typing = << >>
          /\ lines_left > 0
          /\ \E l \in Vocabulary(scenario) :
                /\ c' = Head(l)
                /\ typing' = Tail(l)
          /\ lines_left' = lines_left - 1
    /\ pc' = "tick"
    /\ Quiet
    /\ UNCHANGED << cmd_buffer, cmd_index, ultima_medicao_tempo, rtc_update_time, wake,
                    t_start, t_end, distancia, shvars, hwvars, scenario, edges_left, rx,
                    last_cmd, ativo_antes, ticks, last_trigger, last_line_at, cycle_lines,
                    cycle_echo, cycle_class >>

\* line 148: getchar_timeout_us times out, in an iteration that has something to
\* do or that is the first of a whole second of loop time
PollTimeout ==
    /\ pc = "poll"
    /\ typing = << >>
    /\ DueBefore(wake) = wake
    /\ wake <= MaxTime
    /\ \/ ~Idle(wake)
       \/ WholeSeconds(wake) > WholeSeconds(wake - POLL_TIMEOUT_US)
    /\ now' = wake
    /\ c' = PICO_ERROR_TIMEOUT
    /\ pc' = "tick"
    /\ Quiet
    /\ UNCHANGED << cmd_buffer, cmd_index, ultima_medicao_tempo, rtc_update_time, wake,
                    t_start, t_end, distancia, shvars, alarms, echo_level, trigger,
                    rtc_base, rtc_set_at, scenario, typing, lines_left,
                    edges_left, rx, last_cmd, ativo_antes, ticks, last_trigger, last_line_at,
                    cycle_lines, cycle_echo, cycle_class >>

\* lines 148-183, repeated: a run of iterations in each of which the poll times
\* out, after 1000 us, and nothing is due; the run ends at the start of the
\* poll of the last iteration that starts before the next stop
IdleLoop ==
    /\ pc = "poll"
    /\ typing = << >>
    /\ DueBefore(wake) = wake
    /\ Idle(wake)
    /\ NextStop(wake) > wake
    /\ LET t == wake + ((NextStop(wake) - 1 - wake) \div POLL_TIMEOUT_US) * POLL_TIMEOUT_US
       IN  /\ t <= MaxTime
           /\ now' = t
           /\ wake' = t + POLL_TIMEOUT_US
    /\ c' = PICO_ERROR_TIMEOUT
    /\ Quiet
    /\ UNCHANGED << pc, cmd_buffer, cmd_index, ultima_medicao_tempo, rtc_update_time,
                    t_start, t_end, distancia, shvars, alarms, echo_level, trigger,
                    rtc_base, rtc_set_at, scenario, typing, lines_left, edges_left, rx, last_cmd, ativo_antes,
                    ticks, last_trigger, last_line_at, cycle_lines, cycle_echo, cycle_class >>

\* lines 150-153
Tick ==
    /\ pc = "tick"
    /\ IF TickDue(now)
       THEN /\ current_time' = update_rtc_time(current_time)
            /\ rtc_base' = update_rtc_time(current_time)
            /\ rtc_set_at' = now
            /\ rtc_update_time' = now
            /\ ticks' = ticks + 1
       ELSE UNCHANGED << current_time, rtc_base, rtc_set_at, rtc_update_time, ticks >>
    /\ pc' = "cmd"
    /\ Quiet
    /\ UNCHANGED << c, cmd_buffer, cmd_index, ultima_medicao_tempo, wake, t_start, t_end,
                    distancia, sistema_ativo, echo_recebido, echo_timeout,
                    echo_start_time, echo_end_time, echo_timeout_alarm, now, alarms,
                    echo_level, trigger, scenario, typing, lines_left, edges_left, rx, last_cmd, ativo_antes,
                    last_trigger, last_line_at, cycle_lines, cycle_echo, cycle_class >>

\* lines 155-165
Cmd ==
    /\ pc = "cmd"
    /\ IF c = PICO_ERROR_TIMEOUT
       THEN /\ Quiet
            /\ UNCHANGED << cmd_buffer, cmd_index, sistema_ativo, rx, last_cmd,
                            ativo_antes >>
       ELSE IF c \in Delimiters
       THEN IF cmd_index > 0
            THEN LET buf == [cmd_buffer EXCEPT ![cmd_index] = NUL]
                     cmd == CString(buf)
                 IN  /\ cmd_buffer' = buf
                     /\ sistema_ativo' = verifica_comando_ativo(cmd, sistema_ativo)
                     /\ out' = verifica_comando_out(cmd)
                     /\ cmd_index' = 0
                     /\ last_cmd' = cmd
                     /\ rx' = << >>
                     /\ ativo_antes' = sistema_ativo
            ELSE /\ Quiet
                 /\ UNCHANGED << cmd_buffer, cmd_index, sistema_ativo, rx, last_cmd,
                                 ativo_antes >>
       ELSE IF BufferHasRoom(cmd_index)
       THEN /\ cmd_buffer' = [cmd_buffer EXCEPT ![cmd_index] = c]
            /\ cmd_index' = cmd_index + 1
            /\ rx' = Append(rx, c)
            /\ Quiet
            /\ UNCHANGED << sistema_ativo, last_cmd, ativo_antes >>
       ELSE /\ rx' = Append(rx, c)
            /\ Quiet
            /\ UNCHANGED << cmd_buffer, cmd_index, sistema_ativo, last_cmd,
                            ativo_antes >>
    /\ pc' = "check"
    /\ UNCHANGED << c, ultima_medicao_tempo, rtc_update_time, wake, t_start, t_end,
                    distancia, echo_recebido, echo_timeout, echo_start_time,
                    echo_end_time, echo_timeout_alarm, current_time, hwvars, scenario, typing,
                    lines_left, edges_left, ticks, last_trigger, last_line_at,
                    cycle_lines, cycle_echo, cycle_class >>

\* lines 167-168, and line 148 of the next iteration when no measurement is due
Check ==
    /\ pc = "check"
    /\ IF MedicaoDue(now)
       THEN /\ pc' = "fire"
            /\ cycle_lines' = 0
            /\ cycle_echo' = "none"
            /\ cycle_class' = "none"
            /\ UNCHANGED wake
       ELSE /\ pc' = "poll"
            /\ wake' = now + POLL_TIMEOUT_US
            /\ UNCHANGED << cycle_lines, cycle_echo, cycle_class >>
    /\ Quiet
    /\ UNCHANGED << c, cmd_buffer, cmd_index, ultima_medicao_tempo, rtc_update_time,
                    t_start, t_end, distancia, shvars, hwvars, scenario, typing, lines_left,
                    edges_left, rx, last_cmd, ativo_antes, ticks, last_trigger, last_line_at >>

(***************************************************************************)
(* The measurement cycle, lines 169 to 181                                 *)
(***************************************************************************)
\* disparar_medicao, line 78
Fire1 ==
    /\ pc = "fire"
    /\ echo_recebido' = FALSE
    /\ pc' = "fire_b"
    /\ Quiet
    /\ UNCHANGED << c, cmd_buffer, cmd_index, ultima_medicao_tempo, rtc_update_time,
                    wake, t_start, t_end, distancia, sistema_ativo, echo_timeout,
                    echo_start_time, echo_end_time, echo_timeout_alarm, current_time,
                    hwvars, scenario, typing, lines_left, edges_left, rx, last_cmd, ativo_antes, ticks,
                    last_trigger, last_line_at, cycle_lines, cycle_echo, cycle_class >>

\* disparar_medicao, lines 79-82: the trigger line goes high
Fire2 ==
    /\ pc = "fire_b"
    /\ echo_timeout' = FALSE
    /\ trigger' = 1
    /\ last_trigger' = now
    /\ wake' = now + TRIGGER_PULSE_US
    /\ pc' = "pulse"
    /\ Quiet
    /\ UNCHANGED << c, cmd_buffer, cmd_index, ultima_medicao_tempo, rtc_update_time,
                    t_start, t_end, distancia, sistema_ativo, echo_recebido,
                    echo_start_time, echo_end_time, echo_timeout_alarm, current_time,
                    now, alarms, echo_level, rtc_base, rtc_set_at, scenario, typing, lines_left,
                    edges_left, rx, last_cmd, ativo_antes, ticks, last_line_at, cycle_lines,
                    cycle_echo, cycle_class >>

\* disparar_medicao, line 83, and line 171: the trigger line goes low and main
\* starts to sleep
PulseEnd ==
    /\ pc = "pulse"
    /\ now >= wake
    /\ trigger' = 0
    /\ wake' = now + WAIT_MS * 1000
    /\ pc' = "sleep"
    /\ Quiet
    /\ UNCHANGED << c, cmd_buffer, cmd_index, ultima_medicao_tempo, rtc_update_time,
                    t_start, t_end, distancia, shvars, now, alarms, echo_level,
                    rtc_base, rtc_set_at, scenario, typing, lines_left, edges_left, rx, last_cmd, ativo_antes,
                    ticks, last_trigger, last_line_at, cycle_lines, cycle_echo, cycle_class >>

\* line 171: sleep_ms returns
SleepEnd ==
    /\ pc = "sleep"
    /\ now >= wake
    /\ pc' = "inspect"
    /\ Quiet
    /\ UNCHANGED << c, cmd_buffer, cmd_index, ultima_medicao_tempo, rtc_update_time,
                    wake, t_start, t_end, distancia, shvars, hwvars, scenario, typing, lines_left,
                    edges_left, rx, last_cmd, ativo_antes, ticks, last_trigger, last_line_at,
                    cycle_lines, cycle_echo, cycle_class >>

\* line 173: if (echo_recebido)
Inspect ==
    /\ pc = "inspect"
    /\ pc' = IF echo_recebido THEN "rd1" ELSE "inspect_to"
    /\ cycle_class' = IF echo_recebido THEN "ready" ELSE cycle_class
    /\ Quiet
    /\ UNCHANGED << c, cmd_buffer, cmd_index, ultima_medicao_tempo, rtc_update_time,
                    wake, t_start, t_end, distancia, shvars, hwvars, scenario, typing, lines_left,
                    edges_left, rx, last_cmd, ativo_antes, ticks, last_trigger, last_line_at,
                    cycle_lines, cycle_echo >>

\* lines 177-178: else if (echo_timeout) print_medicao(0), or nothing at all
InspectTimeout ==
    /\ pc = "inspect_to"
    /\ IF echo_timeout
       THEN pc' = "print" /\ distancia' = 0
       ELSE pc' = "update" /\ UNCHANGED distancia
    /\ cycle_class' = IF echo_timeout THEN "timedout" ELSE "pending"
    /\ Quiet
    /\ UNCHANGED << c, cmd_buffer, cmd_index, ultima_medicao_tempo, rtc_update_time,
                    wake, t_start, t_end, shvars, hwvars, scenario, typing, lines_left,
                    edges_left, rx, last_cmd, ativo_antes, ticks, last_trigger, last_line_at,
                    cycle_lines, cycle_echo >>

\* line 174: the first of the two volatile timestamps is read (the order in
\* which the arguments of absolute_time_diff_us are evaluated is the compiler's)
ReadFirst ==
    /\ pc = "rd1"
    /\ \/ t_start' = echo_start_time /\ t_end' = -1
       \/ t_end' = echo_end_time /\ t_start' = -1
    /\ pc' = "rd2"
    /\ Quiet
    /\ UNCHANGED << c, cmd_buffer, cmd_index, ultima_medicao_tempo, rtc_update_time,
                    wake, distancia, shvars, hwvars, scenario, typing, lines_left, edges_left,
                    rx, last_cmd, ativo_antes, ticks, last_trigger, last_line_at, cycle_lines,
                    cycle_echo, cycle_class >>

\* lines 174-175: the other timestamp is read, and the distance computed
ReadSecond ==
    /\ pc = "rd2"
    /\ LET s == IF t_start = -1 THEN echo_start_time ELSE t_start
           e == IF t_end = -1 THEN echo_end_time ELSE t_end
       IN  /\ t_start' = s
           /\ t_end' = e
           /\ distancia' = calcula_distancia_cm(e - s)
    /\ pc' = "print"
    /\ Quiet
    /\ UNCHANGED << c, cmd_buffer, cmd_index, ultima_medicao_tempo, rtc_update_time,
                    wake, shvars, hwvars, scenario, typing, lines_left, edges_left, rx, last_cmd, ativo_antes,
                    ticks, last_trigger, last_line_at, cycle_lines, cycle_echo, cycle_class >>

\* print_medicao, lines 115-123
print_medicao ==
    /\ pc = "print"
    /\ current_time' = rtc_get_datetime
    /\ out' = IF echo_timeout
              THEN << MsgFalha(rtc_get_datetime) >>
              ELSE << MsgCm(rtc_get_datetime, distancia) >>
    /\ cycle_lines' = cycle_lines + 1
    /\ last_line_at' = now
    /\ pc' = "update"
    /\ UNCHANGED << c, cmd_buffer, cmd_index, ultima_medicao_tempo, rtc_update_time,
                    wake, t_start, t_end, distancia, sistema_ativo, echo_recebido,
                    echo_timeout, echo_start_time, echo_end_time, echo_timeout_alarm,
                    hwvars, scenario, typing, lines_left, edges_left, rx, last_cmd, ativo_antes, ticks,
                    last_trigger, cycle_echo, cycle_class >>

\* line 181, and line 148 of the next iteration
Update ==
    /\ pc = "update"
    /\ ultima_medicao_tempo' = now
    /\ pc' = "poll"
    /\ wake' = now + POLL_TIMEOUT_US
    \* the locals of the block of lines 173-179 go out of scope
    /\ t_start' = 0
    /\ t_end' = 0
    /\ distancia' = 0
    /\ cycle_lines' = 0
    /\ cycle_echo' = "none"
    /\ cycle_class' = "none"
    /\ Quiet
    /\ UNCHANGED << c, cmd_buffer, cmd_index, rtc_update_time, shvars, hwvars,
                    scenario, typing, lines_left, edges_left, rx, last_cmd, ativo_antes, ticks,
                    last_trigger, last_line_at >>

Next ==
    \/ AlarmFires
    \/ RisingEdge
    \/ FallingEdge
    \/ BothEdges
    \/ Advance
    \/ PollChar
    \/ PollTimeout
    \/ IdleLoop
    \/ Tick
    \/ Cmd
    \/ Check
    \/ Fire1
    \/ Fire2
    \/ PulseEnd
    \/ SleepEnd
    \/ Inspect
    \/ InspectTimeout
    \/ ReadFirst
    \/ ReadSecond
    \/ print_medicao
    \/ Update

Spec == Init /\ [][Next]_vars

\* the same loop, followed from wall clock values next to a carry
SpecClock == InitClock /\ [][Next]_vars

\* the same loop, followed with echo pulses of chosen widths
SpecBench == InitBench /\ [][Next]_vars

(***************************************************************************)
(* Properties                                                              *)
(***************************************************************************)
\* the latest step called verifica_comando
JustDispatched ==
    out # << >> /\ out[1].kind \in { "iniciado", "pausado", "desconhecido" }

\* the latest step printed a measurement line
JustMeasured == out # << >> /\ IsMedicao(out[1])

\* line 157-159 is about to hand a command to verifica_comando
Dispatching == pc = "cmd" /\ c \in Delimiters /\ cmd_index > 0

ToLower(ch) ==
    CASE ch = "S" -> "s" [] ch = "T" -> "t" [] ch = "A" -> "a" [] ch = "R" -> "r"
      [] ch = "O" -> "o" [] ch = "P" -> "p" [] OTHER -> ch

ToUpper(ch) ==
    CASE ch = "s" -> "S" [] ch = "t" -> "T" [] ch = "a" -> "A" [] ch = "r" -> "R"
      [] ch = "o" -> "O" [] ch = "p" -> "P" [] OTHER -> ch

Lower(w) == [ i \in 1 .. Len(w) |-> ToLower(w[i]) ]
Upper(w) == [ i \in 1 .. Len(w) |-> ToUpper(w[i]) ]

VerbStart == << "s", "t", "a", "r", "t" >>
VerbStop == << "s", "t", "o", "p" >>

\* C1: every measurement cycle prints exactly one line before the
\* last-measurement timestamp is updated, also when the echo result is still
\* pending after the wait.
C1_OneLinePerCycle == pc = "update" => cycle_lines = 1

\* C2: a cycle in which an echo rose and ran into its 30 ms timeout while main
\* was still waiting never prints a distance line, whatever edge arrives after
\* the alarm.
C2_LateEchoIsFalha ==
    cycle_echo = "overdue" => \A i \in DOMAIN out : out[i].kind # "cm"

\* C3: while sistema_ativo is false the trigger line is low, main is not in a
\* measurement cycle and no measurement line is printed.
C3_Quiescence ==
    ~sistema_ativo => trigger = 0 /\ ~InCycle /\ ~JustMeasured

\* C3: sampling was stopped after a measurement, and the sensor went on: an echo
\* rose and its alarm fired
C3_Witness ==
    /\ ~sistema_ativo
    /\ last_cmd = VerbStop
    /\ last_trigger >= 0
    /\ echo_level = 1
    /\ echo_timeout

\* C4, as stated: a line is start or stop whatever the case of its letters.
C4_CaseInsensitive ==
    JustDispatched =>
        /\ Lower(last_cmd) = VerbStart => sistema_ativo /\ out = << MsgIniciado >>
        /\ Lower(last_cmd) = VerbStop => ~sistema_ativo /\ out = << MsgPausado >>
        /\ Lower(last_cmd) \notin { VerbStart, VerbStop } =>
               out = << MsgDesconhecido(last_cmd), MsgDisponiveis >>

\* a line spells the verb all in lower case or all in upper case
Spells(w, verb) == Lower(w) = verb /\ (w = Lower(w) \/ w = Upper(w))

\* C4, amended: a line is start (stop) exactly when it spells the verb all in
\* lower case or all in upper case; then the flag is set (cleared) and the
\* confirmation printed; every other line, a verb in mixed case included, is
\* reported as unknown.
C4_ExactSpellings ==
    JustDispatched =>
        /\ Spells(last_cmd, VerbStart) => sistema_ativo /\ out = << MsgIniciado >>
        /\ Spells(last_cmd, VerbStop) => ~sistema_ativo /\ out = << MsgPausado >>
        /\ ~Spells(last_cmd, VerbStart) /\ ~Spells(last_cmd, VerbStop) =>
               out = << MsgDesconhecido(last_cmd), MsgDisponiveis >>

\* C4: "Start" was dispatched and reported as unknown
C4_Witness ==
    /\ JustDispatched
    /\ last_cmd = << "S", "t", "a", "r", "t" >>
    /\ out[1].kind = "desconhecido"

\* C5: the dispatch of a line that is no recognised verb prints the two
\* diagnostic lines and leaves sistema_ativo as it found it.
C5_UnknownKeepsFlag ==
    JustDispatched /\ last_cmd \notin (CmdStart \cup CmdStop) =>
        /\ out = << MsgDesconhecido(last_cmd), MsgDisponiveis >>
        /\ sistema_ativo = ativo_antes

\* C5: "hello" was dispatched while sampling was on
C5_Witness ==
    /\ JustDispatched
    /\ last_cmd = << "h", "e", "l", "l", "o" >>
    /\ ativo_antes

\* C6: the dispatch of start while active, or of stop while inactive, prints
\* the confirmation and changes neither the flag, nor the pacing timestamps,
\* nor the echo state.
C6_Idempotence ==
    [][ Dispatching /\ ( \/ last_cmd' \in CmdStart /\ sistema_ativo
                         \/ last_cmd' \in CmdStop /\ ~sistema_ativo ) =>
            /\ sistema_ativo' = sistema_ativo
            /\ out' = IF sistema_ativo THEN << MsgIniciado >> ELSE << MsgPausado >>
            /\ UNCHANGED << ultima_medicao_tempo, rtc_update_time, echo_recebido,
                            echo_timeout, echo_start_time, echo_end_time,
                            echo_timeout_alarm, alarms >> ]_vars

\* C6: start was dispatched while sampling was already on
C6_Witness ==
    /\ JustDispatched
    /\ last_cmd \in CmdStart
    /\ ativo_antes
    /\ sistema_ativo

\* the first n elements of w
Prefix(w, n) == SubSeq(w, 1, Min2(Len(w), n))

\* C7: a character that arrives when capacity - 1 characters are held changes
\* neither cmd_buffer nor cmd_index, and the command dispatched at the next
\* delimiter is the first capacity - 1 characters received since the last
\* dispatch, after which cmd_index is 0.
C7_Overflow ==
    [][ /\ ( pc = "cmd" /\ c \notin Delimiters /\ c # PICO_ERROR_TIMEOUT
             /\ Len(rx) >= CMD_BUFFER_SIZE - 1 ) =>
               UNCHANGED << cmd_buffer, cmd_index >>
        /\ Dispatching =>
               /\ last_cmd' = Prefix(rx, CMD_BUFFER_SIZE - 1)
               /\ cmd_index' = 0 ]_vars

\* C7: the long line was dispatched, cut to the 19 characters that were kept
C7_Witness ==
    /\ JustDispatched
    /\ last_cmd = SubSeq(LongLine, 1, CMD_BUFFER_SIZE - 1)
    /\ Len(LongLine) > CMD_BUFFER_SIZE - 1
    /\ cmd_index = 0

\* C8: a trigger pulse starts at least one second after the one before it, and
\* a measurement line is printed at least one second after the one before it.
C8_Cadence ==
    [][ /\ ( trigger = 0 /\ trigger' = 1 /\ last_trigger >= 0 ) =>
               now' - last_trigger >= 1000000
        /\ ( JustMeasured' /\ pc = "print" /\ last_line_at >= 0 ) =>
               now' - last_line_at >= 1000000 ]_vars

\* C8: the trigger is high for a second cycle, after a first one that printed
\* its line and after the host typed start, stop and start again
C8_Witness ==
    /\ trigger = 1
    /\ last_line_at >= 0
    /\ scenario = "sensor"
    /\ lines_left = MaxLines - 3

\* C9: once an iteration is past its tick (lines 150-153), update_rtc_time has
\* been called once for every whole second since the loop started.
C9_TickPerSecond == pc = "cmd" => ticks = WholeSeconds(now)

\* the wall clock holds a time of day
ClockInRange ==
    /\ current_time.hour \in 0 .. 23
    /\ current_time.min \in 0 .. 59
    /\ current_time.sec \in 0 .. 59

\* C10: the wall clock always holds a time of day, and a tick moves it one
\* second on, midnight following 23:59:59.
C10_Rollover ==
    /\ []ClockInRange
    /\ [][ ticks' = ticks + 1 =>
               ToSeconds(current_time') = (ToSeconds(current_time) + 1) % 86400 ]_vars

\* C10: a tick took the clock from 23:59:59 to midnight
C10_Witness ==
    /\ ticks > 0
    /\ rtc_set_at = now
    /\ current_time = [hour |-> 0, min |-> 0, sec |-> 0]

\* main is past disparar_medicao's two resets and has not yet left the cycle
PostFire ==
    pc \in { "pulse", "sleep", "inspect", "inspect_to", "rd1", "rd2", "print", "update" }

\* round(d * 0.0343 / 2), a half going up
Round(d) == (d * 343 + 10000) \div 20000

\* the integer that is printed for a duration of d microseconds is
\* round(d * 0.0343 / 2), for every d with 0 < d < 30000
DistanceLawAll ==
    \A d \in 1 .. (ECHO_TIMEOUT_US - 1) :
        FormatCm(calcula_distancia_cm(d)) = Round(d)

\* C11: a cycle in whose wait the echo line rose and, d microseconds later with
\* 0 < d < 30000, fell, and made no other edge, prints the distance line with
\* the integer round(d * 0.0343 / 2); the same integer comes out of the
\* computation for every such d.
C11_DistanceLaw ==
    /\ DistanceLawAll
    /\ pc = "update" /\ cycle_echo = "pulse" =>
           LET d == echo_end_time - echo_start_time IN
           0 < d /\ d < ECHO_TIMEOUT_US =>
               /\ Len(out) = 1
               /\ out[1].kind = "cm"
               /\ out[1].cm = Round(d)

\* C11: a pulse of 5820 us was printed as 100 cm
C11_Witness ==
    /\ pc = "update"
    /\ cycle_echo = "pulse"
    /\ echo_end_time - echo_start_time = 5820
    /\ Len(out) = 1
    /\ out[1].kind = "cm"
    /\ out[1].cm = 100

\* the echo result, as main reads it from the two flags
Result ==
    IF echo_recebido THEN "Ready"
    ELSE IF echo_timeout THEN "TimedOut"
    ELSE "Pending"

\* C12: a step that is not one of disparar_medicao's resets leaves a result
\* that is Ready or TimedOut as it is.
C12_ResultStable ==
    [][ ( pc \notin { "fire", "fire_b" } \/ pc' = pc ) =>
            ( Result # "Pending" => Result' = Result ) ]_vars

\* C13: once disparar_medicao has run, no alarm is outstanding that was armed
\* before it.
C13_FireCancels ==
    PostFire => \A a \in alarms : a.due - ECHO_TIMEOUT_US >= last_trigger

\* C14: at most one alarm is outstanding, and echo_timeout_alarm is >= 0
\* exactly when there is one, whose handle it then is.
C14_SingleAlarm ==
    /\ Cardinality(alarms) <= 1
    /\ echo_timeout_alarm >= 0 <=> alarms # { }
    /\ \A a \in alarms : a.id = echo_timeout_alarm

\* C14: with sampling never started and no alarm ever fired, the handler has run
\* twice for a rising edge and never for a falling one: the second call found
\* the alarm of the first outstanding, and one alarm is outstanding now
C14_Witness ==
    /\ scenario = "bench"
    /\ ~sistema_ativo
    /\ ~echo_timeout
    /\ edges_left = 0
    /\ echo_level = 1
    /\ echo_end_time = 0
    /\ Cardinality(alarms) = 1

\* C15: in a cycle in which the echo line has not risen, a falling edge that
\* comes after disparar_medicao leaves the result not Ready, and the cycle
\* prints no distance line.
C15_SpuriousFallIgnored ==
    [][ /\ ( PostFire /\ cycle_echo = "none" /\ echo_level = 1 /\ echo_level' = 0 ) =>
               ~echo_recebido'
        /\ ( pc = "print" /\ pc' = "update" /\ cycle_echo = "none" ) =>
               out'[1].kind # "cm" ]_vars

\* C16, as stated: cmd_index is below capacity - 1 in every state.
C16_IndexBelowLast == cmd_index < CMD_BUFFER_SIZE - 1

\* C16, amended: cmd_index is at most capacity - 1 in every state, so that
\* the terminator of line 158 is written inside cmd_buffer.
C16_IndexInBuffer == cmd_index \in 0 .. (CMD_BUFFER_SIZE - 1)

\* C16: the buffer is full, cmd_index is capacity - 1
C16_Witness ==
    /\ cmd_index = CMD_BUFFER_SIZE - 1
    /\ Len(rx) > CMD_BUFFER_SIZE - 1

\* C17: when main has computed a distance, the fall timestamp it read is later
\* than the rise timestamp it read.
C17_PositiveDuration ==
    pc = "print" /\ cycle_class = "ready" => t_end > t_start

\* C18: the line print_medicao prints is the one of the branch main took: a
\* distance line for a cycle found Ready, a Falha line for one found TimedOut.
C18_LineMatchesClass ==
    [][ pc = "print" /\ pc' = "update" =>
            /\ cycle_class = "ready" => out'[1].kind = "cm"
            /\ cycle_class = "timedout" => out'[1].kind = "falha" ]_vars

\* C19: print_medicao leaves current_time as it is.
C19_PrintKeepsClock ==
    [][ pc = "print" /\ pc' = "update" => current_time' = current_time ]_vars

\* C20: echo_recebido and echo_timeout are never both true.
C20_FlagsExclusive == ~( echo_recebido /\ echo_timeout )

\* C20: in a cycle whose alarm had fired, a falling edge has made the result
\* Ready
C20_Witness ==
    /\ cycle_echo = "overdue"
    /\ echo_recebido
    /\ pc = "sleep"

====
